---- MODULE Spec2Model ----
(***************************************************************************)
(* A model of autoHTN.py: the compilation of a crafting catalog into HTN   *)
(* methods and operators, the pruning heuristic, and the depth-first       *)
(* search (pyhop.seek_plan) that main() drives with them.                  *)
(*                                                                         *)
(* Python values are modelled as follows.                                  *)
(*   dict (insertion ordered)  a sequence of <<key, value>> pairs          *)
(*   state                     a function from attribute name to count;    *)
(*                             the attribute "time" is the time counter.   *)
(*                             There is one agent (ID), so the one-entry   *)
(*                             dict {ID: n} of every attribute is the      *)
(*                             number n.                                   *)
(*   task tuple                a TLA+ tuple; Python index k is index k+1   *)
(*   a recipe name             the sequence of its space-separated words   *)
(*   a method's or operator's result   a record: the value returned and    *)
(*                             the state object as the call left it        *)
(***************************************************************************)
EXTENDS Integers, Sequences, FiniteSets, TLC

VARIABLES data, test_case, stack, solution, report, last

vars == <<data, test_case, stack, solution, report, last>>

\* Largest time budget of a test case.
MaxTime == 6
\* Largest number of nested seek_plan calls (the interpreter's recursion limit).
MaxDepth == 60

ID == "agent"

-----------------------------------------------------------------------------
(* Ordered dicts *)

Keys(d) == {d[i][1] : i \in 1..Len(d)}

Get(d, k) == d[CHOOSE i \in 1..Len(d) : d[i][1] = k][2]

\* d1 | d2: the keys of d1 in order with d2's values where d2 has the key,
\* then the keys only d2 has.
RECURSIVE DictUpdate(_, _)
DictUpdate(d1, d2) ==
    IF d2 = <<>> THEN d1
    ELSE LET kv == Head(d2)
             d  == IF kv[1] \in Keys(d1)
                   THEN [i \in 1..Len(d1) |-> IF d1[i][1] = kv[1] THEN kv ELSE d1[i]]
                   ELSE Append(d1, kv)
         IN  DictUpdate(d, Tail(d2))

(* Strings *)

RECURSIVE Join(_, _)
Join(words, sep) ==
    IF Len(words) = 0 THEN ""
    ELSE IF Len(words) = 1 THEN words[1]
    ELSE words[1] \o sep \o Join(Tail(words), sep)

\* (prefix + name).replace(' ', '_') for a name given by its words, none of
\* which holds a space; the prefixes used hold none either.
PrefixedName(prefix, words) == prefix \o Join(words, "_")

-----------------------------------------------------------------------------
(* Catalogs: what json.load gives for crafting.json *)

Recipe(name, time, requires, consumes, produces) ==
    [name |-> name, Time |-> time, Requires |-> requires,
     Consumes |-> consumes, Produces |-> produces]

CraftingRecipes ==
    << Recipe(<<"craft", "wooden_axe", "at", "bench">>, 1,
              << <<"bench", 1>> >>, << <<"plank", 3>> >>, << <<"wooden_axe", 1>> >>),
       Recipe(<<"craft", "plank">>, 1,
              <<>>, << <<"wood", 1>> >>, << <<"plank", 4>> >>),
       Recipe(<<"craft", "bench">>, 1,
              <<>>, << <<"plank", 4>> >>, << <<"bench", 1>> >>),
       Recipe(<<"punch", "for", "wood">>, 2,
              <<>>, <<>>, << <<"wood", 1>> >>),
       Recipe(<<"wooden_axe", "for", "wood">>, 1,
              << <<"wooden_axe", 1>> >>, <<>>, << <<"wood", 1>> >>) >>

\* The crafting catalog; its own Goal entry names wooden_axe.
Crafting ==
    [Items |-> {"wood", "plank"}, Tools |-> {"bench", "wooden_axe"},
     Goal |-> << <<"wooden_axe", 1>> >>, Recipes |-> CraftingRecipes]

\* The same catalog with a Goal entry that does not name wooden_axe.
CraftingPlank ==
    [Items |-> {"wood", "plank"}, Tools |-> {"bench", "wooden_axe"},
     Goal |-> << <<"plank", 1>> >>, Recipes |-> CraftingRecipes]

\* A catalog with a tool that is a second product (dig), three recipes of equal
\* Time for one item (smelt, cast, recast) and an item that one recipe requires,
\* consumes and produces (recast).
Smelting ==
    [Items |-> {"ore", "ingot"}, Tools |-> {"furnace"},
     Goal |-> <<>>,
     Recipes |->
       << Recipe(<<"smelt", "ore", "in", "furnace">>, 2,
                 << <<"furnace", 1>> >>, << <<"ore", 1>> >>, << <<"ingot", 1>> >>),
          Recipe(<<"cast", "ingot">>, 2,
                 <<>>, << <<"ore", 2>> >>, << <<"ingot", 1>> >>),
          Recipe(<<"recast", "ingot">>, 2,
                 << <<"ingot", 2>> >>, << <<"ingot", 1>> >>, << <<"ingot", 2>> >>),
          Recipe(<<"dig">>, 1,
                 <<>>, <<>>, << <<"ore", 1>>, <<"furnace", 1>> >>) >>]

Catalogs == {Crafting, CraftingPlank, Smelting}

TestCase(initial, goal, time) == [Initial |-> initial, Goal |-> goal, Time |-> time]

\* The problem instances of a catalog (main.test_cases): 'a' and 'b' of main
\* are among those of the crafting catalog.
TestCases(d) ==
    IF d.Recipes = CraftingRecipes
    THEN { TestCase(i, g, t) :
             i \in { <<>>, << <<"plank", 1>> >>, << <<"plank", 3>> >>,
                     << <<"bench", 1>>, <<"plank", 4>> >>, << <<"wooden_axe", 1>> >> },
             g \in { << <<"plank", 1>> >>, << <<"wooden_axe", 1>> >>,
                     << <<"plank", 4>>, <<"bench", 1>> >> },
             t \in 0..MaxTime }
         \cup { TestCase(<< <<"plank", 7>> >>, << <<"plank", 8>> >>, t) : t \in 0..MaxTime }
    ELSE { TestCase(i, g, t) :
             i \in { <<>>, << <<"furnace", 1>> >>, << <<"ingot", 2>> >> },
             g \in { << <<"ore", 2>> >>, << <<"ingot", 1>> >>, << <<"ingot", 3>> >> },
             t \in 0..MaxTime }


-----------------------------------------------------------------------------
(* set_up_state, set_up_goals *)

set_up_state(d, tc, time) ==
    [k \in {"time"} \cup d.Items \cup d.Tools \cup Keys(tc.Initial) |->
        IF k \in Keys(tc.Initial) THEN Get(tc.Initial, k)
        ELSE IF k = "time" THEN time
        ELSE 0]

set_up_goals(tc) ==
    [i \in 1..Len(tc.Goal) |-> <<"have_enough", ID, tc.Goal[i][1], tc.Goal[i][2]>>]

-----------------------------------------------------------------------------
(* make_operator: the operator of a recipe *)

\* Applicable without its first check.
ApplicableNoTime(state, rule) ==
    /\ \A i \in 1..Len(rule.Requires) :
          ~(state[rule.Requires[i][1]] < rule.Requires[i][2])
    /\ \A i \in 1..Len(rule.Consumes) :
          ~(state[rule.Consumes[i][1]] < rule.Consumes[i][2])

\* Applicable without its third check.
ApplicableNoConsumes(state, rule) ==
    /\ ~(state["time"] < rule.Time)
    /\ \A i \in 1..Len(rule.Requires) :
          ~(state[rule.Requires[i][1]] < rule.Requires[i][2])

\* The three checks of the operator, in the order of the code.
Applicable(state, rule) ==
    /\ ~(state["time"] < rule.Time)
    /\ \A i \in 1..Len(rule.Requires) :
          ~(state[rule.Requires[i][1]] < rule.Requires[i][2])
    /\ \A i \in 1..Len(rule.Consumes) :
          ~(state[rule.Consumes[i][1]] < rule.Consumes[i][2])

\* setattr(state, item, {ID: cur_val[ID] + sign * amount}) for each entry in turn.
RECURSIVE ApplyDeltas(_, _, _)
ApplyDeltas(state, entries, sign) ==
    IF entries = <<>> THEN state
    ELSE ApplyDeltas([state EXCEPT ![entries[1][1]] = @ + sign * entries[1][2]],
                     Tail(entries), sign)

\* Effect giving the recipe's Time back instead of using it up.
EffectRefundsTime(state, rule) ==
    LET s1 == [state EXCEPT !["time"] = @ + rule.Time]
        s2 == ApplyDeltas(s1, rule.Consumes, -1)
    IN  ApplyDeltas(s2, rule.Produces, 1)

\* Effect building the state anew: what the recipe does not consume or produce
\* is back at 0.
EffectResetsOthers(state, rule) ==
    LET s1 == [k \in DOMAIN state |->
                 IF k \in {"time"} \cup Keys(rule.Consumes) \cup Keys(rule.Produces)
                 THEN state[k] ELSE 0]
        s2 == [s1 EXCEPT !["time"] = @ - rule.Time]
        s3 == ApplyDeltas(s2, rule.Consumes, -1)
    IN  ApplyDeltas(s3, rule.Produces, 1)

\* Effect taking the Requires amounts off as well.
EffectChargesRequires(state, rule) ==
    LET s1 == [state EXCEPT !["time"] = @ - rule.Time]
        s2 == ApplyDeltas(s1, rule.Requires, -1)
        s3 == ApplyDeltas(s2, rule.Consumes, -1)
    IN  ApplyDeltas(s3, rule.Produces, 1)

Effect(state, rule) ==
    LET s1 == [state EXCEPT !["time"] = @ - rule.Time]
        s2 == ApplyDeltas(s1, rule.Consumes, -1)
    IN  ApplyDeltas(s2, rule.Produces, 1)

\* operator using up the time before its checks.
operatorChargesFirst(state, rule) ==
    LET s1 == [state EXCEPT !["time"] = @ - rule.Time]
    IN  IF Applicable(state, rule)
        THEN [ret |-> TRUE, state |-> Effect(state, rule)]
        ELSE [ret |-> FALSE, state |-> s1]

\* ret: whether the operator returned the state (TRUE) or False; state: the
\* state object it was given, as the call left it.
operator(state, rule) ==
    IF Applicable(state, rule)
    THEN [ret |-> TRUE, state |-> Effect(state, rule)]
    ELSE [ret |-> FALSE, state |-> state]

\* declare_operators: the name each recipe's operator is registered under.
OperatorName(rule) == PrefixedName("op_", rule.name)

\* pyhop's operator table: a later recipe of the same name replaces an earlier one.
OperatorNames(d) == {OperatorName(d.Recipes[i]) : i \in 1..Len(d.Recipes)}

OperatorRule(d, name) ==
    LET I == {i \in 1..Len(d.Recipes) : OperatorName(d.Recipes[i]) = name}
    IN  d.Recipes[CHOOSE i \in I : \A j \in I : j <= i]

-----------------------------------------------------------------------------
(* sorted(): Python's stable sort, on a sequence of <<value, key>> pairs *)

\* x goes after every element whose key is not greater than its own.
RECURSIVE Insert(_, _)
Insert(sorted, x) ==
    IF sorted = <<>> THEN <<x>>
    ELSE IF x[2] < Head(sorted)[2] THEN <<x>> \o sorted
    ELSE <<Head(sorted)>> \o Insert(Tail(sorted), x)

RECURSIVE SortedFrom(_, _)
SortedFrom(done, rest) ==
    IF rest = <<>> THEN done ELSE SortedFrom(Insert(done, Head(rest)), Tail(rest))

Sorted(pairs) == SortedFrom(<<>>, pairs)

-----------------------------------------------------------------------------
(* The methods *)

\* What a method call gives: ok is FALSE when it returned False, subtasks is
\* the list it returned otherwise, state is the state object after the call.
Returned(subtasks, state) == [ok |-> TRUE, subtasks |-> subtasks, state |-> state]
ReturnedFalse(state) == [ok |-> FALSE, subtasks |-> <<>>, state |-> state]

\* check_enough asking for more than num.
check_enough_strict(state, id, item, num) ==
    IF state[item] > num THEN Returned(<<>>, state) ELSE ReturnedFalse(state)

check_enough(state, id, item, num) ==
    IF state[item] >= num THEN Returned(<<>>, state) ELSE ReturnedFalse(state)

produce_enough(state, id, item, num) ==
    Returned(<< <<"produce", id, item>>, <<"have_enough", id, item, num>> >>, state)

produce(state, id, item) ==
    Returned(<< <<"produce_" \o item, id>> >>, state)

order ==
    << "bench", "furnace", "ingot", "ore", "coal", "cobble", "stick", "plank", "wood",
       "iron_axe", "stone_axe", "wooden_axe", "iron_pickaxe", "wooden_pickaxe",
       "stone_pickaxe" >>

\* order.index(item)
OrderIndex(item) == (CHOOSE i \in 1..Len(order) : order[i] = item) - 1

\* make_method(name, rule).method
method(name, rule, state, id) ==
    LET needs == DictUpdate(rule.Requires, rule.Consumes)
        items == Sorted([i \in 1..Len(needs) |-> <<needs[i], OrderIndex(needs[i][1])>>])
        subtasks == [i \in 1..Len(items) |->
                        <<"have_enough", id, items[i][1][1], items[i][1][2]>>]
    IN  Returned(Append(subtasks, <<PrefixedName("op_", name), id>>), state)

\* declare_methods: the task name a recipe's method is grouped under.
cur_m(rule) == PrefixedName("produce_", <<rule.Produces[1][1]>>)

\* methods[m] before the sort: <<method, cur_time>> in catalog order.
Grouped(d, m) ==
    LET rules == SelectSeq(d.Recipes, LAMBDA r : cur_m(r) = m)
    IN  [i \in 1..Len(rules) |->
            << [kind |-> "method", name |-> rules[i].name, rule |-> rules[i]],
               rules[i].Time >>]

\* declare_methods without the sort.
declare_methods_unsorted(d, m) ==
    LET info == Grouped(d, m)
    IN  [i \in 1..Len(info) |-> info[i][1]]

\* methods[m] as declare_methods hands it to pyhop.
declare_methods(d, m) ==
    LET info == Sorted(Grouped(d, m))
    IN  [i \in 1..Len(info) |-> info[i][1]]

\* pyhop's method table after the module is loaded and declare_methods(data) ran.
Methods(d, task_name) ==
    IF task_name = "have_enough"
    THEN << [kind |-> "check_enough"], [kind |-> "produce_enough"] >>
    ELSE IF task_name = "produce"
    THEN << [kind |-> "produce"] >>
    ELSE declare_methods(d, task_name)

\* method(state, *task1[1:])
CallMethod(m, state, task) ==
    CASE m.kind = "check_enough"   -> check_enough(state, task[2], task[3], task[4])
      [] m.kind = "produce_enough" -> produce_enough(state, task[2], task[3], task[4])
      [] m.kind = "produce"        -> produce(state, task[2], task[3])
      [] m.kind = "method"         -> method(m.name, m.rule, state, task[2])

-----------------------------------------------------------------------------
(* add_heuristic: the pruning check *)

\* sum([task[3] for task in tasks if len(task) > 3 and task[2] == item])
RECURSIVE Needed(_, _)
Needed(tasks, item) ==
    IF tasks = <<>> THEN 0
    ELSE (IF Len(Head(tasks)) > 3 /\ Head(tasks)[3] = item THEN Head(tasks)[4] ELSE 0)
         + Needed(Tail(tasks), item)

\* tasks.count(task)
Count(tasks, task) == Cardinality({i \in 1..Len(tasks) : tasks[i] = task})

\* heuristic with its fourth rule applied to every item.
heuristic_any_item(d, state, curr_task, tasks, plan, depth, calling_stack) ==
    \/ /\ curr_task[1] = "produce"
       /\ curr_task[3] \in d.Tools
       /\ state[curr_task[3]] > 0
    \/ /\ curr_task[1] = "produce_wooden_axe"
       /\ Needed(tasks, "wood") < 5
       /\ "wooden_axe" \notin Keys(d.Goal)
    \/ /\ curr_task[1] = "produce_stone_pickaxe"
       /\ "stone_pickaxe" \notin Keys(d.Goal)
       /\ Needed(tasks, "cobble") < 5
    \/ /\ curr_task[1] = "have_enough"
       /\ Count(tasks, curr_task) > 1

heuristic(d, state, curr_task, tasks, plan, depth, calling_stack) ==
    \/ /\ curr_task[1] = "produce"
       /\ curr_task[3] \in d.Tools
       /\ state[curr_task[3]] > 0
    \/ /\ curr_task[1] = "produce_wooden_axe"
       /\ Needed(tasks, "wood") < 5
       /\ "wooden_axe" \notin Keys(d.Goal)
    \/ /\ curr_task[1] = "produce_stone_pickaxe"
       /\ "stone_pickaxe" \notin Keys(d.Goal)
       /\ Needed(tasks, "cobble") < 5
    \/ /\ curr_task[1] = "have_enough"
       /\ curr_task[3] \in d.Tools
       /\ Count(tasks, curr_task) > 1

\* What the check was given, as a call leaves it.
Given(state, tasks, plan) == [state |-> state, tasks |-> tasks, plan |-> plan]

\* A call of the check that counts curr_task by taking it out of tasks.
heuristic_call_removing(d, state, curr_task, tasks, plan, depth, calling_stack) ==
    [kind |-> "check", curr_task |-> curr_task,
     ret |-> heuristic(d, state, curr_task, tasks, plan, depth, calling_stack),
     pre |-> Given(state, tasks, plan),
     post |-> Given(state, SelectSeq(tasks, LAMBDA t : t # curr_task), plan)]

\* A call of the check: ret is what it returned, pre and post are the state,
\* the tasks and the plan it was given, before and after the call.  The code
\* reads them (getattr, a sum over tasks, tasks.count, in) and assigns to none.
heuristic_call(d, state, curr_task, tasks, plan, depth, calling_stack) ==
    [kind |-> "check", curr_task |-> curr_task,
     ret |-> heuristic(d, state, curr_task, tasks, plan, depth, calling_stack),
     pre |-> Given(state, tasks, plan),
     post |-> Given(state, tasks, plan)]

-----------------------------------------------------------------------------
(* main and pyhop: the search.  stack holds the active calls of seek_plan,   *)
(* the innermost last; a call's depth is its position less one.              *)

Running == [status |-> "running", plan |-> <<>>]

\* ancestors[k] is the chain of tasks, the innermost first, whose expansion
\* put tasks[k] on the list: what the search keeps of it is calling_stack, which
\* also holds the tasks expanded and completed earlier on the branch.
Frame(state, tasks, plan, calling_stack, ancestors) ==
    [state |-> state, tasks |-> tasks, plan |-> plan,
     calling_stack |-> calling_stack, ancestors |-> ancestors, next |-> 0]

Init ==
    /\ data \in Catalogs
    /\ test_case \in TestCases(data)
    /\ stack = << Frame(set_up_state(data, test_case, test_case.Time),
                        set_up_goals(test_case), <<>>, <<>>,
                        [i \in 1..Len(test_case.Goal) |-> <<>>]) >>
    /\ solution = Running
    /\ report = ""
    /\ last = [kind |-> "pyhop"]

Top == stack[Len(stack)]

Depth == Len(stack) - 1

task1 == Top.tasks[1]

\* for check in checks: if check(state, task1, tasks[1:], plan, depth, calling_stack)
Checked ==
    heuristic_call(data, Top.state, task1, Tail(Top.tasks), Top.plan, Depth,
                   Top.calling_stack)

Pruned == Checked.ret

IsOperator == task1[1] \in OperatorNames(data)

relevant == Methods(data, task1[1])

\* The call on top is in progress and past tasks == [] and the checks.
Expanding ==
    /\ solution.status = "running"
    /\ stack # <<>>
    /\ Top.tasks # <<>>
    /\ Top.next = 0 => ~Pruned

\* A further nested call fits under the recursion limit.
CanRecurse == Len(stack) <= MaxDepth

\* The innermost call returns False to its caller, pyhop to main.
Pop ==
    IF Len(stack) = 1
    THEN /\ stack' = <<>>
         /\ solution' = [status |-> "False", plan |-> <<>>]
    ELSE /\ stack' = SubSeq(stack, 1, Len(stack) - 1)
         /\ UNCHANGED solution

\* The innermost call becomes f and calls seek_plan for child.
Push(f, child) ==
    /\ stack' = Append([stack EXCEPT ![Len(stack)] = f], child)
    /\ UNCHANGED solution

\* tasks == []: the plan is returned through every caller.
ReturnPlan ==
    /\ solution.status = "running"
    /\ stack # <<>>
    /\ Top.tasks = <<>>
    /\ solution' = [status |-> "plan", plan |-> Top.plan]
    /\ stack' = <<>>
    /\ last' = [kind |-> "plan"]
    /\ UNCHANGED <<data, test_case, report>>

\* A check returns True: return False.
Prune ==
    /\ solution.status = "running"
    /\ stack # <<>>
    /\ Top.tasks # <<>>
    /\ Top.next = 0
    /\ Pruned
    /\ Pop
    /\ last' = Checked
    /\ UNCHANGED <<data, test_case, report>>

OperatorCall(rule, state) ==
    LET res == operator(state, rule)
    IN  [kind |-> "operator", rule |-> rule, pre |-> state,
         ret |-> res.ret, post |-> res.state]

\* task1 names an operator, which is applied to a copy of the state and
\* returns it: the search goes on with the rest of the tasks.
OperatorApplied ==
    /\ Expanding
    /\ Top.next = 0
    /\ IsOperator
    /\ LET call == OperatorCall(OperatorRule(data, task1[1]), Top.state)
       IN  /\ call.ret
           /\ CanRecurse
           /\ Push([Top EXCEPT !.next = 1],
                   Frame(call.post, Tail(Top.tasks), Append(Top.plan, task1),
                         Top.calling_stack, Tail(Top.ancestors)))
           /\ last' = call
    /\ UNCHANGED <<data, test_case, report>>

\* The operator returns False; task1 names no method, so the call returns False.
OperatorInapplicable ==
    /\ Expanding
    /\ Top.next = 0
    /\ IsOperator
    /\ LET call == OperatorCall(OperatorRule(data, task1[1]), Top.state)
       IN  /\ ~call.ret
           /\ last' = call
    /\ Pop
    /\ UNCHANGED <<data, test_case, report>>

\* The call of the index-th method of task's name, and what it gave.
MethodCall(index, state, task) ==
    LET m == Methods(data, task[1])[index]
        res == CallMethod(m, state, task)
    IN  [kind |-> "method", index |-> index, m |-> m, task |-> task, pre |-> state,
         ok |-> res.ok, subtasks |-> res.subtasks, post |-> res.state]

\* The next method of task1 returns subtasks: the search goes on with them
\* in front of the rest of the tasks.
MethodApplied ==
    /\ Expanding
    /\ ~IsOperator
    /\ Top.next < Len(relevant)
    /\ LET call == MethodCall(Top.next + 1, Top.state, task1)
       IN  /\ call.ok
           /\ CanRecurse
           /\ Push([Top EXCEPT !.next = @ + 1, !.state = call.post],
                   Frame(call.post, call.subtasks \o Tail(Top.tasks), Top.plan,
                         <<task1>> \o Top.calling_stack,
                         [i \in 1..Len(call.subtasks) |-> <<task1>> \o Top.ancestors[1]]
                            \o Tail(Top.ancestors)))
           /\ last' = call
    /\ UNCHANGED <<data, test_case, report>>

\* The next method of task1 returns False: on to the one after it.
MethodInapplicable ==
    /\ Expanding
    /\ ~IsOperator
    /\ Top.next < Len(relevant)
    /\ LET call == MethodCall(Top.next + 1, Top.state, task1)
       IN  /\ ~call.ok
           /\ stack' = [stack EXCEPT ![Len(stack)] =
                           [Top EXCEPT !.next = @ + 1, !.state = call.post]]
           /\ last' = call
    /\ UNCHANGED <<data, test_case, solution, report>>

\* Nothing is left to try for task1: return False.
ReturnFalse ==
    /\ Expanding
    /\ IF IsOperator THEN Top.next = 1 ELSE Top.next = Len(relevant)
    /\ Pop
    /\ last' = [kind |-> "False"]
    /\ UNCHANGED <<data, test_case, report>>

\* The nested call does not fit: the interpreter raises RecursionError, which
\* nothing catches.
RecursionLimit ==
    /\ Expanding
    /\ ~CanRecurse
    /\ \/ /\ IsOperator
          /\ Top.next = 0
          /\ operator(Top.state, OperatorRule(data, task1[1])).ret
       \/ /\ ~IsOperator
          /\ Top.next < Len(relevant)
          /\ CallMethod(relevant[Top.next + 1], Top.state, task1).ok
    /\ solution' = [status |-> "RecursionError", plan |-> <<>>]
    /\ stack' = <<>>
    /\ last' = [kind |-> "RecursionError"]
    /\ UNCHANGED <<data, test_case, report>>

\* success taken as the truth value of the solution.
success_truthy(sol) == sol.status = "plan" /\ sol.plan # <<>>

\* success = solution is not False
success(sol) == sol.status # "False"

\* main prints the result of the test case.
Report ==
    /\ solution.status \in {"plan", "False"}
    /\ report = ""
    /\ report' = IF success(solution) THEN "SUCCESS" ELSE "FAILURE"
    /\ last' = [kind |-> "report"]
    /\ UNCHANGED <<data, test_case, stack, solution>>

Next ==
    \/ ReturnPlan
    \/ Prune
    \/ OperatorApplied
    \/ OperatorInapplicable
    \/ MethodApplied
    \/ MethodInapplicable
    \/ ReturnFalse
    \/ RecursionLimit
    \/ Report

Spec == Init /\ [][Next]_vars

-----------------------------------------------------------------------------
(* The operators on their own: any operator of the catalog is called on the  *)
(* state of the test case, one call after another, as a plan's replay or the *)
(* search may call them.                                                     *)

ApplyOperator(i) ==
    /\ solution.status = "running"
    /\ Len(stack) = 1
    /\ LET call == OperatorCall(data.Recipes[i], Top.state)
       IN  /\ stack' = << [Top EXCEPT !.state = call.post] >>
           /\ last' = call
    /\ UNCHANGED <<data, test_case, solution, report>>

NextOperators == \E i \in 1..Len(data.Recipes) : ApplyOperator(i)

OpSpec == Init /\ [][NextOperators]_vars

-----------------------------------------------------------------------------
(* What the claims speak of *)

InitialState == set_up_state(data, test_case, test_case.Time)

\* The amount a mapping gives an item, 0 when it does not name it.
AmountIn(d, item) == IF item \in Keys(d) THEN Get(d, item) ELSE 0

\* The state a plan's actions lead to from state, each applied in turn.
RECURSIVE Replay(_, _)
Replay(state, plan) ==
    IF plan = <<>> THEN state
    ELSE Replay(Effect(state, OperatorRule(data, plan[1][1])), Tail(plan))

\* The guard as the specification states it.
GuardHolds(state, rule) ==
    /\ state["time"] >= rule.Time
    /\ \A e \in {rule.Requires[i] : i \in 1..Len(rule.Requires)} : state[e[1]] >= e[2]
    /\ \A e \in {rule.Consumes[i] : i \in 1..Len(rule.Consumes)} : state[e[1]] >= e[2]

GoalMet(state) ==
    \A i \in 1..Len(test_case.Goal) : state[test_case.Goal[i][1]] >= test_case.Goal[i][2]

LastOperator == last.kind = "operator"

LastMethod == last.kind = "method"

-----------------------------------------------------------------------------
(* C1 *)

RECURSIVE SoundFrom(_, _)
SoundFrom(state, plan) ==
    \/ plan = <<>>
    \/ LET rule == OperatorRule(data, plan[1][1])
           new  == Effect(state, rule)
       IN  /\ GuardHolds(state, rule)
           /\ new["time"] >= 0
           /\ SoundFrom(new, Tail(plan))

\* C1: in every plan the search returns, replayed from the initial state, each
\* action's guard holds in the state it is applied to (time, Requires and
\* Consumes), and the time counter is never negative after an action.
C1_Soundness == solution.status = "plan" => SoundFrom(InitialState, solution.plan)

\* A returned plan of three actions or more that uses up the whole budget.
C1_Witness ==
    /\ solution.status = "plan"
    /\ Len(solution.plan) >= 3
    /\ Replay(InitialState, solution.plan)["time"] = 0

(* C2 *)

\* C2: the state a returned plan leads to has, for every goal item, a count of
\* at least its goal amount.
C2_GoalAchieved ==
    solution.status = "plan" => GoalMet(Replay(InitialState, solution.plan))

(* C3 *)

Entries(d) == {d[i] : i \in 1..Len(d)}

\* C3 as stated: after a successful operator every Consumes item is down by its
\* amount, every Produces item up by its amount, every Requires item unchanged.
C3_EffectPerMapping ==
    (LastOperator /\ last.ret) =>
        /\ \A e \in Entries(last.rule.Consumes) : last.post[e[1]] = last.pre[e[1]] - e[2]
        /\ \A e \in Entries(last.rule.Produces) : last.post[e[1]] = last.pre[e[1]] + e[2]
        /\ \A e \in Entries(last.rule.Requires) : last.post[e[1]] = last.pre[e[1]]

\* C3, amended: after a successful operator the count of every resource is its
\* old count, less the recipe's Consumes amount of it, plus the recipe's
\* Produces amount of it (an amount being 0 where the mapping does not name
\* the resource); a Requires item that is neither consumed nor produced is
\* therefore unchanged.
C3_NetEffect ==
    (LastOperator /\ last.ret) =>
        \A k \in DOMAIN last.pre \ {"time"} :
            last.post[k] = last.pre[k] - AmountIn(last.rule.Consumes, k)
                                       + AmountIn(last.rule.Produces, k)

\* A successful operator whose recipe consumes and produces the same item.
C3_Witness ==
    /\ LastOperator
    /\ last.ret
    /\ Keys(last.rule.Consumes) \cap Keys(last.rule.Produces) # {}
    /\ Keys(last.rule.Requires) # {}

(* C4 *)

\* C4: from a state set up with non-negative counts and budget, after any
\* sequence of operator calls every count and the time counter are >= 0.
C4_NonNegative ==
    \A i \in 1..Len(stack) : \A k \in DOMAIN stack[i].state : stack[i].state[k] >= 0

\* A successful call, not the first, that uses the last of the time and the
\* last of an item.
C4_Witness ==
    /\ LastOperator
    /\ last.ret
    /\ last.post["time"] = 0
    /\ last.pre["time"] < test_case.Time
    /\ \E e \in Entries(last.rule.Consumes) : last.post[e[1]] = 0

(* C5 *)

\* C5: an operator returns False exactly when the time is short or a Requires
\* or Consumes item is below its amount, and then leaves the state as it was;
\* otherwise it returns the state, with the recipe's Time taken off.
C5_GuardFailure ==
    LastOperator =>
        /\ ~last.ret <=> ~GuardHolds(last.pre, last.rule)
        /\ ~last.ret => last.post = last.pre
        /\ last.ret => last.post["time"] = last.pre["time"] - last.rule.Time

\* A call that fails on a Consumes item alone.
C5_Witness ==
    /\ LastOperator
    /\ ~last.ret
    /\ last.pre["time"] >= last.rule.Time
    /\ \A e \in Entries(last.rule.Requires) : last.pre[e[1]] >= e[2]
    /\ last.rule.Requires # <<>>

(* C6 *)

CatalogIndex(rule) == CHOOSE i \in 1..Len(data.Recipes) : data.Recipes[i] = rule

\* C6: the alternatives declare_methods registers for produce_<item> are in
\* non-decreasing Time order, recipes of equal Time in catalog order; so when
\* the search calls a recipe's method, every alternative of the task before it
\* is at most as expensive.
C6_FastestFirst ==
    /\ \A item \in data.Items \cup data.Tools :
          LET ms == declare_methods(data, "produce_" \o item)
          IN  \A i, j \in 1..Len(ms) :
                 i < j => /\ ms[i].rule.Time <= ms[j].rule.Time
                          /\ ms[i].rule.Time = ms[j].rule.Time
                                => CatalogIndex(ms[i].rule) < CatalogIndex(ms[j].rule)
    /\ (LastMethod /\ last.m.kind = "method") =>
          \A j \in 1..(last.index - 1) :
              Methods(data, last.task[1])[j].rule.Time <= last.m.rule.Time

\* The search calls the method of a recipe after that of a cheaper recipe
\* which the catalog declares later.
C6_Witness ==
    /\ LastMethod
    /\ last.m.kind = "method"
    /\ last.index >= 2
    /\ LET first == Methods(data, last.task[1])[1].rule
       IN  /\ first.Time < last.m.rule.Time
           /\ CatalogIndex(first) > CatalogIndex(last.m.rule)

(* C7 *)

\* C7: have_enough has two alternatives; the first, check_enough, gives the
\* empty list exactly when the count is at least the amount and False
\* otherwise; the second, produce_enough, always gives [produce(agent, item),
\* have_enough(agent, item, amount)]; neither changes the state.
C7_HaveEnough ==
    /\ Len(Methods(data, "have_enough")) = 2
    /\ (LastMethod /\ last.task[1] = "have_enough") =>
          /\ last.post = last.pre
          /\ last.index = 1 =>
                /\ last.m.kind = "check_enough"
                /\ last.ok <=> last.pre[last.task[3]] >= last.task[4]
                /\ last.ok => last.subtasks = <<>>
          /\ last.index = 2 =>
                /\ last.m.kind = "produce_enough"
                /\ last.ok
                /\ last.subtasks = << <<"produce", last.task[2], last.task[3]>>,
                                      <<"have_enough", last.task[2], last.task[3],
                                        last.task[4]>> >>

\* The second alternative is called for an item of which there is exactly
\* the amount asked for.
C7_Witness ==
    /\ LastMethod
    /\ last.task[1] = "have_enough"
    /\ last.index = 2
    /\ last.pre[last.task[3]] = last.task[4]

(* C8 *)

RECURSIVE NoToolRemadeFrom(_, _)
NoToolRemadeFrom(state, plan) ==
    \/ plan = <<>>
    \/ LET rule == OperatorRule(data, plan[1][1])
       IN  /\ \A t \in data.Tools \cap Keys(rule.Produces) : ~(state[t] > 0)
           /\ NoToolRemadeFrom(Effect(state, rule), Tail(plan))

\* C8: in a returned plan no action whose recipe produces a tool is applied in
\* a state where the agent already holds that tool.
C8_ToolReuse == solution.status = "plan" => NoToolRemadeFrom(InitialState, solution.plan)

(* C9 *)

ZeroBudget ==
    /\ test_case.Time = 0
    /\ \A i \in 1..Len(data.Recipes) : data.Recipes[i].Time > 0
    /\ ~GoalMet(InitialState)

\* C9: with a time budget of 0, recipes of positive Time and a goal item short
\* in the initial state, no operator is applied and the search ends in
\* Failure: it returns no plan and does not recurse without end.
C9_ZeroBudgetFails ==
    ZeroBudget =>
        /\ ~(LastOperator /\ last.ret)
        /\ solution.status \in {"running", "False"}
        /\ report \in {"", "FAILURE"}

(* C10 *)

\* C10: when the initial state holds the goal amount of every goal item, the
\* search calls check_enough for each goal and nothing else and returns the
\* empty plan, whatever the budget; main reports an empty plan as SUCCESS and
\* only a False result as FAILURE.
C10_AlreadySatisfied ==
    /\ GoalMet(InitialState) =>
          /\ solution.status \in {"running", "plan"}
          /\ solution.plan = <<>>
          /\ last.kind \in {"pyhop", "method", "plan", "report"}
          /\ LastMethod => (last.m.kind = "check_enough" /\ last.ok)
          /\ Len(stack) <= Len(test_case.Goal) + 1
          /\ report \in {"", "SUCCESS"}
    /\ report = "SUCCESS" <=> (solution.status = "plan" /\ last.kind = "report")
    /\ report = "FAILURE" <=> (solution.status = "False" /\ last.kind = "report")

\* The empty plan is reported as SUCCESS with a budget of 0.
C10_Witness ==
    /\ GoalMet(InitialState)
    /\ test_case.Time = 0
    /\ solution = [status |-> "plan", plan |-> <<>>]
    /\ report = "SUCCESS"

(* C11 *)

\* The innermost call of the search is at its checks.
Checking ==
    /\ solution.status = "running"
    /\ stack # <<>>
    /\ Top.tasks # <<>>
    /\ Top.next = 0

\* C11: the time counter never rises along a branch of the search: a successful
\* operator lowers it by exactly the recipe's Time, which is >= 0, a failed
\* operator leaves it as it was, and neither a method nor the check changes it.
C11_TimeMonotone ==
    /\ \A i, j \in 1..Len(stack) :
          i < j => stack[j].state["time"] <= stack[i].state["time"]
    /\ LastOperator =>
          /\ last.rule.Time >= 0
          /\ last.ret => last.post["time"] = last.pre["time"] - last.rule.Time
          /\ ~last.ret => last.post["time"] = last.pre["time"]
    /\ LastMethod => last.post["time"] = last.pre["time"]
    /\ Checking => Checked.post.state["time"] = Checked.pre.state["time"]
    /\ last.kind = "check" => last.post.state["time"] = last.pre.state["time"]

\* An operator fails after earlier ones of the branch used up part of the
\* budget, with two of the calls on the branch at different times.
C11_Witness ==
    /\ LastOperator
    /\ ~last.ret
    /\ 0 < last.pre["time"]
    /\ last.pre["time"] < test_case.Time
    /\ \E i, j \in 1..Len(stack) : stack[j].state["time"] < stack[i].state["time"]

(* C12 *)

\* C12: the search of every test case ends in a result, a plan or Failure: it
\* never nests calls until the interpreter's recursion limit stops it.
C12_Terminates == solution.status # "RecursionError"

(* C13 *)

\* The current task asks to produce an item that a task among its ancestors
\* asks to produce as well.
ProduceCycle ==
    /\ Checking
    /\ task1[1] = "produce"
    /\ \E k \in 1..Len(Top.ancestors[1]) :
          /\ Top.ancestors[1][k][1] = "produce"
          /\ Top.ancestors[1][k][3] = task1[3]

\* C13: when the current task is produce(agent, item) and a produce task for
\* the same item is among its ancestors, the check returns True, for a tool and
\* for any other item.
C13_CycleBound == ProduceCycle => Checked.ret

(* C14 *)

\* C14: for a current task have_enough(agent, item, amount) the check returns
\* True when item is a tool and that very task occurs more than once in the
\* pending tasks, and only then: a have_enough of an item that is no tool is
\* not pruned, however often it is pending.
C14_RedundantRequest ==
    (Checking /\ task1[1] = "have_enough") =>
        /\ (task1[3] \in data.Tools /\ Count(Tail(Top.tasks), task1) > 1) => Checked.ret
        /\ task1[3] \notin data.Tools => ~Checked.ret
        /\ Checked.ret => Count(Tail(Top.tasks), task1) > 1

\* The check is called for a have_enough of a tool that is pending twice, with
\* a have_enough of another amount or item pending as well.
C14_Witness ==
    /\ Checking
    /\ task1[1] = "have_enough"
    /\ task1[3] \in data.Tools
    /\ Count(Tail(Top.tasks), task1) = 2
    /\ \E k \in 2..Len(Top.tasks) :
          Top.tasks[k][1] = "have_enough" /\ Top.tasks[k] # task1

\* The check is called for a have_enough of an item that is no tool and is
\* pending more than once.
C14_NonToolRepeated ==
    /\ Checking
    /\ task1[1] = "have_enough"
    /\ task1[3] \notin data.Tools
    /\ Count(Tail(Top.tasks), task1) > 1

(* C15 *)

Producing(item) == {i \in 1..Len(data.Recipes) : item \in Keys(data.Recipes[i].Produces)}

Registered(item) ==
    LET ms == declare_methods(data, "produce_" \o item)
    IN  {ms[k].rule : k \in 1..Len(ms)}

\* C16: for every item, each recipe that lists it among its products, first or
\* later, has its method among the alternatives registered for produce_<item>;
\* so the produce_<item> task that produce gives for an item some recipe
\* produces has an alternative.
C16_RecipeCoverage ==
    /\ \A item \in data.Items \cup data.Tools :
          \A i \in Producing(item) : data.Recipes[i] \in Registered(item)
    /\ (LastMethod /\ last.m.kind = "produce" /\ Producing(last.task[3]) # {}) =>
          Len(Methods(data, last.subtasks[1][1])) > 0

\* produce gives a produce_<item> task that has no alternative, for an item
\* that a recipe produces.
C16_Unregistered ==
    /\ LastMethod
    /\ last.m.kind = "produce"
    /\ Producing(last.task[3]) # {}
    /\ Len(Methods(data, last.subtasks[1][1])) = 0

(* C17 *)

\* C17: the method of a recipe leaves the state as it was and returns one
\* have_enough(agent, item, amount) task for every entry of the recipe's
\* Requires and of its Consumes, with the entry's amount, and then the task of
\* the recipe's operator, under the name declare_operators registers for it.
C17_MethodBody ==
    (LastMethod /\ last.m.kind = "method") =>
        LET rule  == last.m.rule
            needs == rule.Requires \o rule.Consumes
            n     == Len(last.subtasks)
            have(e) == <<"have_enough", last.task[2], e[1], e[2]>>
        IN  /\ last.ok
            /\ last.post = last.pre
            /\ n = Len(needs) + 1
            /\ \A e \in Entries(needs) :
                  Count(SubSeq(last.subtasks, 1, n - 1), have(e)) = Count(needs, e)
            /\ last.subtasks[n] = <<OperatorName(rule), last.task[2]>>
            /\ OperatorName(rule) \in OperatorNames(data)
            /\ OperatorRule(data, OperatorName(rule)) = rule

(* C18 *)

\* Call j of the branch is where every task that came of call i's first task
\* is done: the first call after i with fewer tasks than i.
SubtreeDone(i, j) ==
    /\ i < j
    /\ Len(stack[j].tasks) = Len(stack[i].tasks) - 1
    /\ \A k \in (i + 1)..(j - 1) : Len(stack[k].tasks) >= Len(stack[i].tasks)

\* Call i's first task is a produce(agent, item) that produce_enough emitted.
ProduceEmitted(i) ==
    /\ Len(stack[i].tasks) >= 2
    /\ stack[i].tasks[1][1] = "produce"
    /\ stack[i].tasks[2][1] = "have_enough"
    /\ stack[i].tasks[2][3] = stack[i].tasks[1][3]

\* tasks == [] in the innermost call: the branch is the one the plan about to
\* be returned comes from.
PlanFound ==
    /\ solution.status = "running"
    /\ stack # <<>>
    /\ Top.tasks = <<>>

\* C18: on the branch of a returned plan, when the subtree of a
\* produce(agent, item) that have_enough's second alternative emitted is
\* complete, the count of item is at least what it was when the subtree began.
C18_Accumulation ==
    PlanFound =>
        \A i, j \in 1..Len(stack) :
            (ProduceEmitted(i) /\ SubtreeDone(i, j)) =>
                stack[j].state[stack[i].tasks[1][3]]
                    >= stack[i].state[stack[i].tasks[1][3]]

(* C19 *)

\* Some sequence of at most n actions, each applicable where it is applied,
\* leads from state to a state that meets every goal entry.
RECURSIVE Reaches(_, _)
Reaches(state, n) ==
    \/ GoalMet(state)
    \/ /\ n > 0
       /\ \E i \in 1..Len(data.Recipes) :
             /\ GuardHolds(state, data.Recipes[i])
             /\ Reaches(Effect(state, data.Recipes[i]), n - 1)

\* Every recipe takes a unit of time or more, so a sequence within the budget
\* has at most as many actions as the budget has units.
Feasible == Reaches(InitialState, test_case.Time)

\* C19: when some sequence of applicable actions reaches the goal within the
\* time budget, the search does not return Failure.
C19_Complete == solution.status = "False" => ~Feasible

(* C20 *)

\* The resources a recipe's operator may change.
Touched(rule) == {"time"} \cup Keys(rule.Consumes) \cup Keys(rule.Produces)

\* C20: a successful operator changes the time counter and the counts of the
\* items its recipe consumes or produces and nothing else: every other declared
\* item and tool has the count it had, and the state has an entry for the same
\* resources as before, every declared item and tool among them.
C20_OperatorFrame ==
    (LastOperator /\ last.ret) =>
        /\ DOMAIN last.post = DOMAIN last.pre
        /\ data.Items \cup data.Tools \subseteq DOMAIN last.pre
        /\ \A k \in DOMAIN last.pre \ Touched(last.rule) : last.post[k] = last.pre[k]

\* A successful operator with a required tool it neither consumes nor produces
\* and with another item held that its recipe does not name.
C20_Witness ==
    /\ LastOperator
    /\ last.ret
    /\ \E k \in Keys(last.rule.Requires) \ Touched(last.rule) : last.pre[k] > 0
    /\ \E k \in DOMAIN last.pre \ (Touched(last.rule) \cup Keys(last.rule.Requires)) :
          last.pre[k] > 0

====
